---- MODULE Spec2Model ----
(***************************************************************************)
(* State-machine model of data_tool.py: clean_from_tags (the tag           *)
(* classifier) and enrich_from_master (knowledge base + reconciler).       *)
(*                                                                         *)
(* A text value (a CSV cell) is a sequence of one-character strings, so    *)
(* that lower(), strip() and the substring test are computed character by  *)
(* character.  A column name is a TLA+ string: the code only ever compares *)
(* column names for equality.  A table is seen at the level csv.reader     *)
(* and csv.writer exchange it with the code: a header (list of column      *)
(* names) and rows (lists of cells); the writer's quoting and the reader's *)
(* unquoting of a cell are inverse to each other and are not modelled.     *)
(***************************************************************************)
EXTENDS Integers, Sequences, FiniteSets, TLC

VARIABLES
    command,                \* "clean" | "enrich": which function is called
    pc,                     \* position inside the call
    run,                    \* 1: first call; 2: clean_from_tags on its own output
    fieldnames,             \* reader.fieldnames of the table being read
    infile,                 \* raw rows of that table (blank lines are <<>>)
    pos,                    \* number of raw rows the reader has consumed
    output_fieldnames,      \* header written by writer.writeheader()
    output_io,              \* rows written so far by writer.writerow()
    updated_rows_count,
    total_rows_count,
    master_fieldnames,      \* header of the master table
    master,                 \* rows of the master table read so far
    organisation_data_map,  \* knowledge base: original name -> Sector/Category
    seen_orgs_lower,        \* lowercased names already recorded
    result,                 \* the returned (output, updated, total), or NoResult
    first                   \* what the first call returned, kept during run 2

vars == << command, pc, run, fieldnames, infile, pos, output_fieldnames,
           output_io, updated_rows_count, total_rows_count, master_fieldnames,
           master, organisation_data_map, seen_orgs_lower, result, first >>

----------------------------------------------------------------------------
(* Bounds of the model *)

\* rows of the table handed to clean_from_tags
MaxRows == 2
\* rows of the master table
MaxMasterRows == 2
\* rows of the target table
MaxTargetRows == 2

----------------------------------------------------------------------------
(* Python values and string methods *)

\* Python's None (DictReader's restval for a cell missing from a short row).
\* No text is equal to it: every element of a text is a single character.
None == << "None" >>

\* DictReader's restkey (None): the key under which the surplus cells of a
\* row longer than the header are stored.
RestKey == "<restkey>"

EmptyStr == << >>

\* the ASCII letters str.lower() changes
UpperToLower ==
    ("A" :> "a") @@ ("B" :> "b") @@ ("C" :> "c") @@ ("D" :> "d") @@ ("E" :> "e") @@
    ("F" :> "f") @@ ("G" :> "g") @@ ("H" :> "h") @@ ("I" :> "i") @@ ("J" :> "j") @@
    ("K" :> "k") @@ ("L" :> "l") @@ ("M" :> "m") @@ ("N" :> "n") @@ ("O" :> "o") @@
    ("P" :> "p") @@ ("Q" :> "q") @@ ("R" :> "r") @@ ("S" :> "s") @@ ("T" :> "t") @@
    ("U" :> "u") @@ ("V" :> "v") @@ ("W" :> "w") @@ ("X" :> "x") @@ ("Y" :> "y") @@
    ("Z" :> "z")

\* str.lower() of one character
LowerChar(c) == IF c \in DOMAIN UpperToLower THEN UpperToLower[c] ELSE c

\* str.lower()
Lower(s) == [k \in 1..Len(s) |-> LowerChar(s[k])]

IsSpace(c) == c \in {" ", "\t"}

\* str.strip()
Strip(s) ==
    LET keep == {k \in 1..Len(s) : ~IsSpace(s[k])}
    IN  IF keep = {} THEN EmptyStr
        ELSE LET lo == CHOOSE k \in keep : \A j \in keep : k <= j
                 hi == CHOOSE k \in keep : \A j \in keep : k >= j
             IN  SubSeq(s, lo, hi)

\* the `in` operator on strings: t occurs in s as a contiguous substring
Contains(s, t) ==
    \E k \in 0..(Len(s) - Len(t)) : \A j \in 1..Len(t) : s[k + j] = t[j]

\* truth value of a cell: None and '' are falsy
Truthy(v) == v # None /\ v # EmptyStr

\* dict.get(key, default)
Get(row, key, default) == IF key \in DOMAIN row THEN row[key] ELSE default

\* elements of a list, as a set
Range(s) == {s[k] : k \in 1..Len(s)}

----------------------------------------------------------------------------
(* Part 1: the rule tables *)

SoftwareTechnology == <<"S","o","f","t","w","a","r","e"," ","&"," ","T","e","c","h","n","o","l","o","g","y">>
ManufacturingIndustrial == <<"M","a","n","u","f","a","c","t","u","r","i","n","g"," ","&"," ","I","n","d","u","s","t","r","i","a","l">>
HealthcareEducation == <<"H","e","a","l","t","h","c","a","r","e"," ","&"," ","E","d","u","c","a","t","i","o","n">>
BusinessServices == <<"B","u","s","i","n","e","s","s"," ","S","e","r","v","i","c","e","s">>
FoodLeisure == <<"F","o","o","d"," ","&"," ","L","e","i","s","u","r","e">>
Sustainability == <<"S","u","s","t","a","i","n","a","b","i","l","i","t","y">>

SECTOR_MAPPING == <<
    << <<"S","o","f","t","w","a","r","e",","," ","M","e","d","i","a"," ","&"," ","T","e","c","h","n","o","l","o","g","y">>, SoftwareTechnology, 1 >>,
    << ManufacturingIndustrial, ManufacturingIndustrial, 2 >>,
    << <<"c","o","n","s","t","r","u","c","t","i","o","n">>, ManufacturingIndustrial, 2 >>,
    << <<"M","a","n","u","f","a","c","t","u","r","i","n","g"," ","&"," ","D","i","s","t","r","i","b","u","t","i","o","n">>, ManufacturingIndustrial, 2 >>,
    << HealthcareEducation, HealthcareEducation, 3 >>,
    << <<"H","e","a","l","t","h"," ","&"," ","E","d","u","c","a","t","i","o","n">>, HealthcareEducation, 3 >>,
    << SoftwareTechnology, SoftwareTechnology, 4 >>,
    << BusinessServices, BusinessServices, 7 >>,
    << FoodLeisure, FoodLeisure, 5 >>,
    << Sustainability, Sustainability, 6 >> >>

Corporate == <<"C","o","r","p","o","r","a","t","e">>
PrivateEquity == <<"P","r","i","v","a","t","e"," ","E","q","u","i","t","y">>
LegalServices == <<"L","e","g","a","l"," ","S","e","r","v","i","c","e","s">>
VentureCapitalGrowth == <<"V","e","n","t","u","r","e"," ","a","n","d"," ","C","a","p","i","t","a","l"," ","G","r","o","w","t","h">>
FinancialServices == <<"F","i","n","a","n","c","i","a","l"," ","S","e","r","v","i","c","e","s">>
WealthManager == <<"W","e","a","l","t","h"," ","M","a","n","a","g","e","r">>
Accountants == <<"A","c","c","o","u","n","t","a","n","t","s">>
Consultancy == <<"C","o","n","s","u","l","t","a","n","c","y">>
OrionNetwork == <<"O","r","i","o","n"," ","N","e","t","w","o","r","k">>
Competitor == <<"C","o","m","p","e","t","i","t","o","r">>
Debt == <<"D","e","b","t">>
Equity == <<"E","q","u","i","t","y">>
Other == <<"O","t","h","e","r">>

CATEGORY_MAPPING == <<
    << Corporate, Corporate, 1 >>,
    << PrivateEquity, PrivateEquity, 2 >>,
    << LegalServices, LegalServices, 3 >>,
    << <<"L","a","w"," ","F","i","r","m">>, LegalServices, 3 >>,
    << VentureCapitalGrowth, VentureCapitalGrowth, 11 >>,
    << FinancialServices, FinancialServices, 8 >>,
    << WealthManager, WealthManager, 9 >>,
    << Accountants, Accountants, 7 >>,
    << Consultancy, Consultancy, 4 >>,
    << OrionNetwork, OrionNetwork, 9 >>,
    << Competitor, Competitor, 10 >>,
    << Debt, Debt, 5 >>,
    << Equity, Equity, 6 >>,
    << Other, Other, 99 >> >>

\* Sorted without the sort: the rules are scanned in the order of the table.
SortedAsListed(mapping) == mapping

\* sorted(mapping, key=lambda item: item[2]): Python's sort is stable, so
\* rules of equal rank keep the order in which the table lists them.
RECURSIVE Sorted(_)
Sorted(mapping) ==
    IF mapping = << >> THEN << >>
    ELSE LET n    == Len(mapping)
             x    == mapping[n]
             rest == Sorted(SubSeq(mapping, 1, n - 1))
             \* x goes after every rule whose rank is not larger than its own
             at   == Cardinality({k \in 1..Len(rest) : rest[k][3] <= x[3]})
         IN  SubSeq(rest, 1, at) \o << x >> \o SubSeq(rest, at + 1, Len(rest))

sorted_sector_mapping == Sorted(SECTOR_MAPPING)
sorted_category_mapping == Sorted(CATEGORY_MAPPING)
valid_sectors == {sorted_sector_mapping[k][2] : k \in 1..Len(sorted_sector_mapping)}
valid_categories == {sorted_category_mapping[k][2] : k \in 1..Len(sorted_category_mapping)}

\* FoundValue without tag.lower(): the tag is searched as it is spelled.
FoundValueCaseSensitive(sorted_mapping, lower_tags_str) ==
    LET hits == {k \in 1..Len(sorted_mapping) :
                    Contains(lower_tags_str, sorted_mapping[k][1])}
    IN  IF hits = {} THEN None
        ELSE sorted_mapping[CHOOSE k \in hits : \A j \in hits : k <= j][2]

\* The scan of _process_field_from_tags: the canonical value of the first rule
\* of sorted_mapping whose lowercased tag occurs in lower_tags_str, or None.
FoundValue(sorted_mapping, lower_tags_str) ==
    LET hits == {k \in 1..Len(sorted_mapping) :
                    Contains(lower_tags_str, Lower(sorted_mapping[k][1]))}
    IN  IF hits = {} THEN None
        ELSE sorted_mapping[CHOOSE k \in hits : \A j \in hits : k <= j][2]

\* ProcessFieldFromTags without the test `current_value in valid_values`.
ProcessFieldAlwaysDerive(row, field_name, sorted_mapping, valid_values, lower_tags_str) ==
    LET cell == Get(row, field_name, EmptyStr)
    IN  IF cell = None
        THEN [row |-> row, updated |-> FALSE, raised |-> TRUE]
        ELSE LET current_value == Strip(cell)
                 found_value   == FoundValue(sorted_mapping, lower_tags_str)
             IN  IF found_value # None /\ found_value # EmptyStr
                    /\ found_value # current_value
                 THEN [row |-> [k \in (DOMAIN row) \cup {field_name} |->
                                   IF k = field_name THEN found_value ELSE row[k]],
                       updated |-> TRUE, raised |-> FALSE]
                 ELSE [row |-> row, updated |-> FALSE, raised |-> FALSE]

\* ProcessFieldFromTags that assigns and reports an update whenever a rule
\* matches, without looking at the current value.
ProcessFieldAlwaysAssign(row, field_name, sorted_mapping, valid_values, lower_tags_str) ==
    LET cell == Get(row, field_name, EmptyStr)
    IN  IF cell = None
        THEN [row |-> row, updated |-> FALSE, raised |-> TRUE]
        ELSE LET found_value == FoundValue(sorted_mapping, lower_tags_str)
             IN  IF found_value # None
                 THEN [row |-> [k \in (DOMAIN row) \cup {field_name} |->
                                   IF k = field_name THEN found_value ELSE row[k]],
                       updated |-> TRUE, raised |-> FALSE]
                 ELSE [row |-> row, updated |-> FALSE, raised |-> FALSE]

\* _process_field_from_tags: the row after the call, the returned flag, and
\* whether the call raised (None.strip() on a cell missing from a short row).
ProcessFieldFromTags(row, field_name, sorted_mapping, valid_values, lower_tags_str) ==
    LET cell == Get(row, field_name, EmptyStr)
    IN  IF cell = None
        THEN [row |-> row, updated |-> FALSE, raised |-> TRUE]
        ELSE LET current_value == Strip(cell)
                 found_value   == FoundValue(sorted_mapping, lower_tags_str)
             IN  IF current_value \in valid_values
                 THEN [row |-> row, updated |-> FALSE, raised |-> FALSE]
                 ELSE IF found_value # None /\ found_value # EmptyStr
                         /\ found_value # current_value
                 THEN [row |-> [k \in (DOMAIN row) \cup {field_name} |->
                                   IF k = field_name THEN found_value ELSE row[k]],
                       updated |-> TRUE, raised |-> FALSE]
                 ELSE [row |-> row, updated |-> FALSE, raised |-> FALSE]

----------------------------------------------------------------------------
(* csv.DictReader and csv.DictWriter *)

\* The dict DictReader builds from a raw row: dict(zip(fieldnames, row)), the
\* surplus cells of a long row under restkey, None for the cells a short row
\* lacks.
DictReaderRow(fns, raw) ==
    LET keys == Range(fns) \cup (IF Len(raw) > Len(fns) THEN {RestKey} ELSE {})
    IN  [k \in keys |->
            IF k = RestKey THEN SubSeq(raw, Len(fns) + 1, Len(raw))
            ELSE LET idx == CHOOSE j \in 1..Len(fns) :
                                /\ fns[j] = k
                                /\ \A i \in 1..Len(fns) : fns[i] = k => i <= j
                 IN  IF idx <= Len(raw) THEN raw[idx] ELSE None]

\* DictWriter.writerow with extrasaction='raise' and restval='': a key that is
\* no fieldname raises ValueError; csv.writer writes None as the empty string.
WriterRaises(row, fns) == ~(DOMAIN row \subseteq Range(fns))

WriterCells(row, fns) ==
    [k \in 1..Len(fns) |->
        LET v == Get(row, fns[k], EmptyStr)
        IN  IF v = None THEN EmptyStr ELSE v]

\* reader.fieldnames[:] with 'Sector' and 'Category' appended when absent
OutputFieldnames(fns) ==
    LET withSector == IF "Sector" \in Range(fns) THEN fns ELSE Append(fns, "Sector")
    IN  IF "Category" \in Range(withSector) THEN withSector
        ELSE Append(withSector, "Category")

\* The text of a table: '' is the table with no header and no rows.
EmptyOutput == [fieldnames |-> << >>, rows |-> << >>]

\* the tuple returned on an empty table and by the except clauses: "", 0, 0
EmptyResult == [output |-> EmptyOutput, updated |-> 0, total |-> 0]

\* no call has returned yet
NoResult == [output |-> EmptyOutput, updated |-> -1, total |-> -1]


----------------------------------------------------------------------------
(* Input tables *)

Acme == <<"A","c","m","e"," ","C","o","r","p">>

\* the cell values a column takes in the tables handed to the program
ColValues(kind, col) ==
    IF kind = "clean" THEN
        CASE col = "Tags" ->
                { EmptyStr,
                  <<"V","I","P">>,
                  <<"O","r","i","o","n"," ","N","e","t","w","o","r","k",","," ","W","e","a","l","t","h"," ","M","a","n","a","g","e","r",","," ","c","o","n","s","t","r","u","c","t","i","o","n",","," ","S","o","f","t","w","a","r","e"," ","&"," ","T","e","c","h","n","o","l","o","g","y">>,
                  <<"O","R","I","O","N"," ","N","E","T","W","O","R","K",";"," ","B","u","s","i","n","e","s","s"," ","S","e","r","v","i","c","e","s",","," ","F","o","o","d"," ","&"," ","L","e","i","s","u","r","e">> }
          [] col = "Sector" -> { EmptyStr, <<"L","e","g","a","c","y">>, <<" ","S","u","s","t","a","i","n","a","b","i","l","i","t","y"," ">> }
          [] col = "Category" -> { EmptyStr, Other }
          [] OTHER -> { <<"x">> }
    ELSE IF kind = "master" THEN
        CASE col = "Name" -> { EmptyStr, Acme, <<" ","A","C","M","E"," ","C","O","R","P"," ">> }
          [] col = "Organisation" -> { Acme, <<"a","c","m","e"," ","c","o","r","p">> }
          [] col = "Sector" -> { EmptyStr, <<"X">> }
          [] col = "Category" -> { <<" ">>, <<"Z">> }
          [] OTHER -> { <<"x">> }
    ELSE
        CASE col = "Organisation" -> { EmptyStr, <<"A","C","M","E"," ","c","o","r","p">>, <<"A","c","m","e"," ","C","o","r","p",".">> }
          [] col = "Sector" -> { <<" ">>, <<"Y">> }
          [] col = "Category" -> { EmptyStr, <<"Y">> }
          [] OTHER -> { <<"x">> }

\* one row of non-canonical, non-empty cells, from which the malformed rows
\* (too short, too long) are cut
ExampleCell(kind, col) ==
    IF kind = "clean" THEN
        CASE col = "Tags" -> <<"O","R","I","O","N"," ","N","E","T","W","O","R","K",";"," ","B","u","s","i","n","e","s","s"," ","S","e","r","v","i","c","e","s",","," ","F","o","o","d"," ","&"," ","L","e","i","s","u","r","e">>
          [] col = "Sector" -> <<"L","e","g","a","c","y">>
          [] col = "Category" -> Other
          [] OTHER -> <<"x">>
    ELSE IF kind = "master" THEN
        CASE col = "Name" -> Acme
          [] col = "Organisation" -> Acme
          [] col = "Sector" -> <<"X">>
          [] col = "Category" -> <<"Z">>
          [] OTHER -> <<"x">>
    ELSE
        CASE col = "Organisation" -> <<"A","C","M","E"," ","c","o","r","p">>
          [] col = "Sector" -> <<" ">>
          [] col = "Category" -> <<"Y">>
          [] OTHER -> <<"x">>

ExampleRow(kind, fns) == [k \in 1..Len(fns) |-> ExampleCell(kind, fns[k])]

\* the headers of the tables handed to the program; << >> is a table whose
\* first line is missing or blank
CleanHeaders == { << >>, << "Tags", "Sector", "Category" >>, << "Sector", "Tags" >> }
MasterHeaders == { << "Name", "Sector", "Category" >>,
                   << "Name", "Organisation", "Sector" >>,
                   << "Organisation", "Sector", "Category" >> }
TargetHeaders == { << >>, << "Organisation", "Sector", "Category" >>,
                   << "Organisation" >> }

\* rows with one cell per column
RECURSIVE FullRows(_, _)
FullRows(kind, fns) ==
    IF fns = << >> THEN { << >> }
    ELSE { Append(r, v) : r \in FullRows(kind, SubSeq(fns, 1, Len(fns) - 1)),
                          v \in ColValues(kind, fns[Len(fns)]) }

\* rows that lack their last cells: the proper, non-empty prefixes of the
\* example row
ShortRows(kind, fns) ==
    { SubSeq(ExampleRow(kind, fns), 1, n) : n \in 1..(Len(fns) - 1) }

\* a row with one cell more than the header
LongRows(kind, fns) == { Append(ExampleRow(kind, fns), <<"x">>) }

\* a blank line: csv.reader yields [] and DictReader skips it
BlankRow == << >>

\* the rows a table of the given kind and header may hold, tabulated once
RawRowsTable ==
    [t \in ({"clean"} \X CleanHeaders) \cup ({"master"} \X MasterHeaders)
              \cup ({"target"} \X TargetHeaders) |->
        FullRows(t[1], t[2]) \cup ShortRows(t[1], t[2]) \cup LongRows(t[1], t[2])
            \cup { BlankRow }]

RawRows(kind, fns) == RawRowsTable[<< kind, fns >>]

----------------------------------------------------------------------------
(* clean_from_tags *)

\* The body of the row loop of clean_from_tags up to writer.writerow(row):
\* the row as it is handed to the writer, whether it counts as updated, and
\* whether _process_field_from_tags raised.
CleanRowBody(row) ==
    LET tags_str == Get(row, "Tags", EmptyStr)
    IN  IF ~Truthy(tags_str)
        THEN [row |-> row, updated |-> FALSE, raised |-> FALSE]
        ELSE LET lower_tags_str == Lower(tags_str)
                 s == ProcessFieldFromTags(row, "Sector", sorted_sector_mapping,
                                           valid_sectors, lower_tags_str)
                 c == ProcessFieldFromTags(s.row, "Category", sorted_category_mapping,
                                           valid_categories, lower_tags_str)
             IN  IF s.raised THEN s
                 ELSE [row |-> c.row, updated |-> s.updated \/ c.updated,
                       raised |-> c.raised]

\* The except clause returning what was written and counted before the raise.
ReturnPartial ==
    /\ result' = [output |-> [fieldnames |-> output_fieldnames, rows |-> output_io],
                  updated |-> updated_rows_count, total |-> total_rows_count]
    /\ pc' = "done"

\* the call returns "", 0, 0 (no header, or the except clause)
ReturnEmpty ==
    /\ result' = EmptyResult
    /\ pc' = "done"

\* return output_io.getvalue(), updated_rows_count, total_rows_count
ReturnOutput ==
    /\ result' = [output |-> [fieldnames |-> output_fieldnames, rows |-> output_io],
                  updated |-> updated_rows_count, total |-> total_rows_count]
    /\ pc' = "done"

\* The next raw row of the table being read.  In the first call the table is
\* any table within the bounds, revealed row by row; the second call reads
\* the rows the first call wrote.
NextRaw(kind, bound, raw) ==
    IF run = 1
    THEN /\ pos = Len(infile)
         /\ pos < bound
         /\ raw \in RawRows(kind, fieldnames)
         /\ infile' = Append(infile, raw)
    ELSE /\ pos < Len(infile)
         /\ raw = infile[pos + 1]
         /\ infile' = infile

\* the reader is exhausted
AtEnd == pos = Len(infile)

\* CleanOpen without the test `if not reader.fieldnames`.
CleanOpenNoHeaderTest ==
    /\ command = "clean"
    /\ pc = "open"
    /\ output_fieldnames' = OutputFieldnames(fieldnames)
    /\ pc' = "rows"
    /\ UNCHANGED << command, run, fieldnames, infile, pos, output_io,
                    updated_rows_count, total_rows_count, master_fieldnames,
                    master, organisation_data_map, seen_orgs_lower, result, first >>

\* lines 81-92: open the table, read the header, write the output header
CleanOpen ==
    /\ command = "clean"
    /\ pc = "open"
    /\ IF fieldnames = << >>
       THEN /\ ReturnEmpty
            /\ UNCHANGED output_fieldnames
       ELSE /\ output_fieldnames' = OutputFieldnames(fieldnames)
            /\ pc' = "rows"
            /\ UNCHANGED result
    /\ UNCHANGED << command, run, fieldnames, infile, pos, output_io,
                    updated_rows_count, total_rows_count, master_fieldnames,
                    master, organisation_data_map, seen_orgs_lower, first >>

\* lines 94-108: one iteration of `for row in reader`
CleanRow ==
    /\ command = "clean"
    /\ pc = "rows"
    /\ \E raw \in (IF run = 1 THEN RawRows("clean", fieldnames) ELSE Range(infile)) :
        /\ NextRaw("clean", MaxRows, raw)
        /\ pos' = pos + 1
        /\ IF raw = BlankRow
           THEN UNCHANGED << pc, output_io, updated_rows_count,
                             total_rows_count, result >>
           ELSE LET b == CleanRowBody(DictReaderRow(fieldnames, raw))
                IN  IF b.raised \/ WriterRaises(b.row, output_fieldnames)
                    THEN /\ ReturnEmpty
                         /\ total_rows_count' = total_rows_count + 1
                         /\ updated_rows_count' =
                               updated_rows_count
                                   + (IF ~b.raised /\ b.updated THEN 1 ELSE 0)
                         /\ UNCHANGED output_io
                    ELSE /\ total_rows_count' = total_rows_count + 1
                         /\ updated_rows_count' =
                               updated_rows_count + (IF b.updated THEN 1 ELSE 0)
                         /\ output_io' =
                               Append(output_io, WriterCells(b.row, output_fieldnames))
                         /\ UNCHANGED << pc, result >>
    /\ UNCHANGED << command, run, fieldnames, output_fieldnames,
                    master_fieldnames, master, organisation_data_map,
                    seen_orgs_lower, first >>

\* line 110: the reader is exhausted
CleanReturn ==
    /\ command = "clean"
    /\ pc = "rows"
    /\ AtEnd
    /\ ReturnOutput
    /\ UNCHANGED << command, run, fieldnames, infile, pos, output_fieldnames,
                    output_io, updated_rows_count, total_rows_count,
                    master_fieldnames, master, organisation_data_map,
                    seen_orgs_lower, first >>

\* clean_from_tags is called again on the text the first call returned
CleanAgain ==
    /\ command = "clean"
    /\ pc = "done"
    /\ run = 1
    /\ first' = result
    /\ run' = 2
    /\ fieldnames' = result.output.fieldnames
    /\ infile' = result.output.rows
    /\ pos' = 0
    /\ output_fieldnames' = << >>
    /\ output_io' = << >>
    /\ updated_rows_count' = 0
    /\ total_rows_count' = 0
    /\ result' = NoResult
    /\ pc' = "open"
    /\ UNCHANGED << command, master_fieldnames, master, organisation_data_map,
                    seen_orgs_lower >>

----------------------------------------------------------------------------
(* enrich_from_master, step 1: the knowledge base *)

\* MasterNameCell that falls back to Organisation when the Name cell is empty.
MasterNameCellOrEmpty(row) ==
    IF "Name" \in DOMAIN row /\ row["Name"] # None /\ Strip(row["Name"]) # EmptyStr
    THEN row["Name"]
    ELSE Get(row, "Organisation", EmptyStr)

\* line 137: row.get('Name', row.get('Organisation', ''))
MasterNameCell(row) ==
    IF "Name" \in DOMAIN row THEN row["Name"]
    ELSE Get(row, "Organisation", EmptyStr)

\* RecordOrganisation without the test on seen_orgs_lower: the last row wins.
RecordOrganisationLastWins(map, seen, org_name, row) ==
    [k \in (DOMAIN map) \cup {org_name} |->
        IF k = org_name
        THEN [Sector   |-> Get(row, "Sector", EmptyStr),
              Category |-> Get(row, "Category", EmptyStr)]
        ELSE map[k]]

\* lines 141-146: record the row unless its lowercased name was seen before
RecordOrganisation(map, seen, org_name, row) ==
    IF Lower(org_name) \notin seen
    THEN [k \in (DOMAIN map) \cup {org_name} |->
             IF k = org_name
             THEN [Sector   |-> Get(row, "Sector", EmptyStr),
                   Category |-> Get(row, "Category", EmptyStr)]
             ELSE map[k]]
    ELSE map

\* lines 136-146: one iteration of the loop over the master table
EnrichMasterRow ==
    /\ command = "enrich"
    /\ pc = "master"
    /\ Len(master) < MaxMasterRows
    /\ \E raw \in RawRows("master", master_fieldnames) :
        /\ master' = Append(master, raw)
        /\ IF raw = BlankRow
           THEN UNCHANGED << pc, organisation_data_map, seen_orgs_lower, result >>
           ELSE LET row  == DictReaderRow(master_fieldnames, raw)
                    cell == MasterNameCell(row)
                IN  IF cell = None
                    THEN \* None.strip() raises: lines 148-150
                         /\ ReturnEmpty
                         /\ UNCHANGED << organisation_data_map, seen_orgs_lower >>
                    ELSE LET org_name == Strip(cell)
                         IN  /\ IF org_name = EmptyStr
                                THEN UNCHANGED << organisation_data_map,
                                                  seen_orgs_lower >>
                                ELSE /\ organisation_data_map' =
                                           RecordOrganisation(organisation_data_map,
                                               seen_orgs_lower, org_name, row)
                                     /\ seen_orgs_lower' =
                                           seen_orgs_lower \cup {Lower(org_name)}
                             /\ UNCHANGED << pc, result >>
    /\ UNCHANGED << command, run, fieldnames, infile, pos, output_fieldnames,
                    output_io, updated_rows_count, total_rows_count,
                    master_fieldnames, first >>

\* The master table is exhausted and closed; the target table is opened.
EnrichMasterEnd ==
    /\ command = "enrich"
    /\ pc = "master"
    /\ master' = << >>
    /\ master_fieldnames' = << >>
    /\ fieldnames' \in TargetHeaders
    /\ pc' = "open"
    /\ UNCHANGED << command, run, infile, pos, output_fieldnames, output_io,
                    updated_rows_count, total_rows_count, organisation_data_map,
                    seen_orgs_lower, result, first >>

----------------------------------------------------------------------------
(* enrich_from_master, step 2: the target table *)

\* LowerToOriginalKeyMap without k.lower(): the index is keyed by the names
\* as they are spelled.
KeyMapAsSpelled(map) == [l \in DOMAIN map |-> l]

\* line 155: {k.lower(): k for k in organisation_data_map.keys()}
LowerToOriginalKeyMap(map) ==
    [l \in {Lower(k) : k \in DOMAIN map} |->
        CHOOSE k \in DOMAIN map : Lower(k) = l]

\* FillField without the test that the row's field is empty.
FillFieldOverwrite(row, field, correct_data) ==
    IF Truthy(correct_data[field])
    THEN [value |-> correct_data[field], filled |-> TRUE]
    ELSE [value |-> Get(row, field, EmptyStr), filled |-> FALSE]

\* lines 185-187 and 189-191 for one field: the value of the field after the
\* step and whether it was filled
FillField(row, field, correct_data) ==
    IF Strip(Get(row, field, EmptyStr)) = EmptyStr /\ Truthy(correct_data[field])
    THEN [value |-> correct_data[field], filled |-> TRUE]
    ELSE [value |-> Get(row, field, EmptyStr), filled |-> FALSE]

\* The body of the row loop of enrich_from_master up to writer.writerow(row).
EnrichRowBody(row, map) ==
    LET cell == Get(row, "Organisation", EmptyStr)
    IN  IF cell = None
        THEN [row |-> row, updated |-> FALSE, raised |-> TRUE]
        ELSE
        LET org_name   == Strip(cell)
            lower_keys == LowerToOriginalKeyMap(map)
        IN  IF Lower(org_name) \notin DOMAIN lower_keys
            THEN [row |-> row, updated |-> FALSE, raised |-> FALSE]
            ELSE
            LET correct_data == map[lower_keys[Lower(org_name)]]
            IN  IF Get(row, "Sector", EmptyStr) = None
                THEN [row |-> row, updated |-> FALSE, raised |-> TRUE]
                ELSE
                LET s    == FillField(row, "Sector", correct_data)
                    row1 == IF s.filled
                            THEN [k \in (DOMAIN row) \cup {"Sector"} |->
                                     IF k = "Sector" THEN s.value ELSE row[k]]
                            ELSE row
                IN  IF Get(row1, "Category", EmptyStr) = None
                    THEN [row |-> row1, updated |-> s.filled, raised |-> TRUE]
                    ELSE
                    LET c    == FillField(row1, "Category", correct_data)
                        row2 == IF c.filled
                                THEN [k \in (DOMAIN row1) \cup {"Category"} |->
                                         IF k = "Category" THEN c.value ELSE row1[k]]
                                ELSE row1
                    IN  [row |-> row2, updated |-> s.filled \/ c.filled,
                         raised |-> FALSE]

\* lines 161-173: open the target table, read the header, write the output header
EnrichOpen ==
    /\ command = "enrich"
    /\ pc = "open"
    /\ IF fieldnames = << >>
       THEN /\ ReturnEmpty
            /\ UNCHANGED output_fieldnames
       ELSE /\ output_fieldnames' = OutputFieldnames(fieldnames)
            /\ pc' = "rows"
            /\ UNCHANGED result
    /\ UNCHANGED << command, run, fieldnames, infile, pos, output_io,
                    updated_rows_count, total_rows_count, master_fieldnames,
                    master, organisation_data_map, seen_orgs_lower, first >>

\* lines 175-196: one iteration of the loop over the target table
EnrichRow ==
    /\ command = "enrich"
    /\ pc = "rows"
    /\ \E raw \in RawRows("target", fieldnames) :
        /\ NextRaw("target", MaxTargetRows, raw)
        /\ pos' = pos + 1
        /\ IF raw = BlankRow
           THEN UNCHANGED << pc, output_io, updated_rows_count,
                             total_rows_count, result >>
           ELSE LET b == EnrichRowBody(DictReaderRow(fieldnames, raw),
                                       organisation_data_map)
                IN  IF b.raised \/ WriterRaises(b.row, output_fieldnames)
                    THEN /\ ReturnEmpty
                         /\ total_rows_count' = total_rows_count + 1
                         /\ updated_rows_count' =
                               updated_rows_count
                                   + (IF ~b.raised /\ b.updated THEN 1 ELSE 0)
                         /\ UNCHANGED output_io
                    ELSE /\ total_rows_count' = total_rows_count + 1
                         /\ updated_rows_count' =
                               updated_rows_count + (IF b.updated THEN 1 ELSE 0)
                         /\ output_io' =
                               Append(output_io, WriterCells(b.row, output_fieldnames))
                         /\ UNCHANGED << pc, result >>
    /\ UNCHANGED << command, run, fieldnames, output_fieldnames,
                    master_fieldnames, master, organisation_data_map,
                    seen_orgs_lower, first >>

\* line 198: the reader is exhausted
EnrichReturn ==
    /\ command = "enrich"
    /\ pc = "rows"
    /\ AtEnd
    /\ ReturnOutput
    /\ UNCHANGED << command, run, fieldnames, infile, pos, output_fieldnames,
                    output_io, updated_rows_count, total_rows_count,
                    master_fieldnames, master, organisation_data_map,
                    seen_orgs_lower, first >>

----------------------------------------------------------------------------
(* The specification *)

EmptyMap == [k \in {} |-> k]

Init ==
    /\ command \in {"clean", "enrich"}
    /\ run = 1
    /\ infile = << >>
    /\ pos = 0
    /\ output_fieldnames = << >>
    /\ output_io = << >>
    /\ updated_rows_count = 0
    /\ total_rows_count = 0
    /\ master = << >>
    /\ organisation_data_map = EmptyMap
    /\ seen_orgs_lower = {}
    /\ result = NoResult
    /\ first = NoResult
    /\ IF command = "clean"
       THEN /\ pc = "open"
            /\ fieldnames \in CleanHeaders
            /\ master_fieldnames = << >>
       ELSE /\ pc = "master"
            /\ fieldnames = << >>
            /\ master_fieldnames \in MasterHeaders

NextClean ==
    \/ CleanOpen
    \/ CleanRow
    \/ CleanReturn
    \/ CleanAgain

NextEnrich ==
    \/ EnrichMasterRow
    \/ EnrichMasterEnd
    \/ EnrichOpen
    \/ EnrichRow
    \/ EnrichReturn

Next == NextClean \/ NextEnrich

Spec == Init /\ [][Next]_vars

\* clean_from_tags alone
InitClean == Init /\ command = "clean"
SpecClean == InitClean /\ [][NextClean]_vars

\* enrich_from_master alone
InitEnrich == Init /\ command = "enrich"
SpecEnrich == InitEnrich /\ [][NextEnrich]_vars

----------------------------------------------------------------------------
(* What the properties below speak about *)

IsDataRow(raw) == raw # BlankRow

\* the dicts DictReader has yielded so far, in order
RowsRead ==
    LET raws == SelectSeq(SubSeq(infile, 1, pos), IsDataRow)
    IN  [i \in 1..Len(raws) |-> DictReaderRow(fieldnames, raws[i])]

\* the call ended in an except clause
Failed ==
    /\ pc = "done"
    /\ result = EmptyResult
    /\ \/ fieldnames # << >>
       \/ master_fieldnames # << >>

\* the rows that were read and written: row i of the output is row i read
Written == IF Failed THEN {} ELSE 1..Len(output_io)

\* cell of an input row as the program reads it: '' for an absent column
InCell(i, col) == Get(RowsRead[i], col, EmptyStr)

\* cell of the output row
OutCell(i, col) ==
    output_io[i][CHOOSE k \in 1..Len(output_fieldnames) : output_fieldnames[k] = col]

\* the input cell as the writer writes it when nothing assigns it
Passed(v) == IF v = None THEN EmptyStr ELSE v

Fields == {"Sector", "Category"}

\* the row changed value in one of the two fields
RowChanged(i) == \E F \in Fields : OutCell(i, F) # Passed(InCell(i, F))

----------------------------------------------------------------------------
(* Rule precedence as the specification states it *)

RuleTable(F) == IF F = "Sector" THEN SECTOR_MAPPING ELSE CATEGORY_MAPPING

CanonicalSectorValues == {SECTOR_MAPPING[k][2] : k \in 1..Len(SECTOR_MAPPING)}
CanonicalCategoryValues == {CATEGORY_MAPPING[k][2] : k \in 1..Len(CATEGORY_MAPPING)}

CanonicalValues(F) ==
    IF F = "Sector" THEN CanonicalSectorValues ELSE CanonicalCategoryValues

\* the tokens of the two tables in lower case, rule by rule
LowerSectorTokens == [k \in 1..Len(SECTOR_MAPPING) |-> Lower(SECTOR_MAPPING[k][1])]
LowerCategoryTokens == [k \in 1..Len(CATEGORY_MAPPING) |-> Lower(CATEGORY_MAPPING[k][1])]

LowerTokens(F) == IF F = "Sector" THEN LowerSectorTokens ELSE LowerCategoryTokens

\* the rules of F whose token occurs in tags, letter case ignored
Matching(F, tags) ==
    LET low == Lower(tags)
    IN  {k \in 1..Len(RuleTable(F)) : Contains(low, LowerTokens(F)[k])}

\* among the rules M of F, the canonical value of the one with the lowest
\* priority number, the one listed first among equal priorities
WinningValue(F, M) ==
    LET T == RuleTable(F)
        w == CHOOSE k \in M :
                \A j \in M : T[k][3] < T[j][3] \/ (T[k][3] = T[j][3] /\ k <= j)
    IN  T[w][2]

\* a cell the classifier has to decide: its trimmed value is not canonical
Undecided(F, cell) == cell # None /\ Strip(cell) \notin CanonicalValues(F)

C2_CanonicalKept ==
    /\ \A i \in Written : \A F \in Fields :
          (InCell(i, F) # None /\ Strip(InCell(i, F)) \in CanonicalValues(F))
             => OutCell(i, F) = InCell(i, F)
    /\ (command = "clean" /\ ~Failed)
          => updated_rows_count = Cardinality({i \in Written : RowChanged(i)})

\* C2 happens: a row whose Sector is canonical (with blanks around it) and
\* whose Tags name another sector was written with its Sector as it was, and
\* its Category, canonical too, did not make the row count.
C2_Witness ==
    /\ command = "clean" /\ run = 1 /\ pc = "done" /\ ~Failed
    /\ updated_rows_count = 0
    /\ \E i \in Written :
          /\ InCell(i, "Sector") = <<" ","S","u","s","t","a","i","n","a","b","i","l","i","t","y"," ">>
          /\ InCell(i, "Category") = Other
          /\ Matching("Sector", InCell(i, "Tags")) # {}
          /\ Matching("Category", InCell(i, "Tags")) # {}
          /\ OutCell(i, "Sector") = <<" ","S","u","s","t","a","i","n","a","b","i","l","i","t","y"," ">>

\* C3: clean_from_tags run on the output of a first run returns the same
\* table, with updated = 0 and the same total.
C3_Idempotent ==
    (command = "clean" /\ run = 2 /\ pc = "done")
       => /\ result.output = first.output
          /\ result.updated = 0
          /\ result.total = first.total

\* C3 happens: the first run updated a row and left a non-canonical Sector in
\* another row, and the second run has returned.
C3_Witness ==
    /\ command = "clean" /\ run = 2 /\ pc = "done"
    /\ first.updated > 0
    /\ first.total = 2
    /\ \E i \in Written : OutCell(i, "Sector") = <<"L","e","g","a","c","y">>

----------------------------------------------------------------------------
(* Name matching as the specification states it *)

\* the knowledge base entries whose name equals the row's trimmed
\* Organisation after lowercasing both
MasterEntries(i) ==
    LET org == InCell(i, "Organisation")
    IN  IF org = None \/ Strip(org) = EmptyStr THEN {}
        ELSE {k \in DOMAIN organisation_data_map : Lower(k) = Lower(Strip(org))}

IsMatched(i) == MasterEntries(i) # {}

\* the master's value of field F for a matched row
MasterValue(i, F) ==
    organisation_data_map[CHOOSE k \in MasterEntries(i) : TRUE][F]

\* field F of row i is filled: empty after trimming, and the master has a
\* non-empty value
IsFilled(i, F) ==
    /\ IsMatched(i)
    /\ InCell(i, F) # None
    /\ Strip(InCell(i, F)) = EmptyStr
    /\ Truthy(MasterValue(i, F))

\* C4: in enrich_from_master, for a row whose Organisation matches a master
\* entry, each of Sector and Category on its own keeps its input value when
\* that is non-empty after trimming, even when the master differs, and takes
\* the master's value when it is empty after trimming and the master's value
\* is non-empty; the rows counted as updated are the rows with a filled field.
C4_FillOnlyIfEmpty ==
    /\ \A i \in Written : \A F \in Fields :
          (IsMatched(i) /\ InCell(i, F) # None) =>
              /\ Strip(InCell(i, F)) # EmptyStr => OutCell(i, F) = InCell(i, F)
              /\ IsFilled(i, F) => OutCell(i, F) = MasterValue(i, F)
    /\ (command = "enrich" /\ ~Failed)
          => updated_rows_count =
                Cardinality({i \in Written : \E F \in Fields : IsFilled(i, F)})

\* C4 happens: a matched row kept its Sector "Y" although the master says
\* "X", had its empty Category filled from the master, and was counted.
C4_Witness ==
    /\ command = "enrich" /\ pc = "done" /\ ~Failed
    /\ updated_rows_count = 1
    /\ \E i \in Written :
          /\ IsMatched(i)
          /\ InCell(i, "Sector") = <<"Y">>
          /\ MasterValue(i, "Sector") = <<"X">>
          /\ OutCell(i, "Sector") = <<"Y">>
          /\ InCell(i, "Category") = EmptyStr
          /\ MasterValue(i, "Category") = <<"Z">>
          /\ OutCell(i, "Category") = <<"Z">>

\* C5: in enrich_from_master, a row is matched exactly when its trimmed
\* Organisation is non-empty and equals a master name after lowercasing
\* both: a row that is not matched is written with every cell as it was and
\* is not counted, and a row that is matched has its fillable fields filled.
C5_CaseInsensitiveExactMatch ==
    /\ \A i \in Written :
          IF IsMatched(i)
          THEN \A F \in Fields : IsFilled(i, F) => OutCell(i, F) = MasterValue(i, F)
          ELSE \A k \in 1..Len(output_fieldnames) :
                  output_io[i][k] = Passed(InCell(i, output_fieldnames[k]))
    /\ (command = "enrich" /\ ~Failed)
          => updated_rows_count <= Cardinality({i \in Written : IsMatched(i)})

\* C5 happens: with master "Acme Corp", the row "ACME corp" was enriched and
\* the row "Acme Corp." was written as it was; one row is counted.
C5_Witness ==
    /\ command = "enrich" /\ pc = "done" /\ ~Failed
    /\ Acme \in DOMAIN organisation_data_map
    /\ updated_rows_count = 1
    /\ \E i, j \in Written :
          /\ InCell(i, "Organisation") = <<"A","C","M","E"," ","c","o","r","p">>
          /\ OutCell(i, "Sector") = <<"X">>
          /\ InCell(j, "Organisation") = <<"A","c","m","e"," ","C","o","r","p",".">>
          /\ InCell(j, "Sector") = <<" ">>
          /\ OutCell(j, "Sector") = <<" ">>

----------------------------------------------------------------------------
(* The knowledge base and the master table *)

\* the master rows read so far, as dicts
MasterRead ==
    LET raws == SelectSeq(master, IsDataRow)
    IN  [i \in 1..Len(raws) |-> DictReaderRow(master_fieldnames, raws[i])]

\* the master table is being read and no row has raised
ReadingMaster == command = "enrich" /\ pc = "master"

\* the lowercased trimmed name of master row i, '' when the row has none
MasterKey(i) == Lower(Strip(MasterNameCell(MasterRead[i])))

\* C6: the knowledge base holds at most one entry per lowercased trimmed
\* name, and the entry of a name carries the Sector and Category of the first
\* master row with that name, whatever later rows with that name hold.
C6_FirstWriteWins ==
    ReadingMaster =>
       /\ \A k1, k2 \in DOMAIN organisation_data_map :
             Lower(k1) = Lower(k2) => k1 = k2
       /\ \A i \in 1..Len(MasterRead) :
             MasterKey(i) # EmptyStr =>
                \E k \in DOMAIN organisation_data_map :
                   /\ Lower(k) = MasterKey(i)
                   /\ (\A j \in 1..(i - 1) : MasterKey(j) # MasterKey(i)) =>
                         /\ k = Strip(MasterNameCell(MasterRead[i]))
                         /\ organisation_data_map[k].Sector =
                               Get(MasterRead[i], "Sector", EmptyStr)
                         /\ organisation_data_map[k].Category =
                               Get(MasterRead[i], "Category", EmptyStr)

\* C6 happens: two master rows with the same name in different letter case,
\* the first with an empty Sector and the second with "X"; the entry has the
\* empty Sector.
C6_Witness ==
    /\ ReadingMaster
    /\ Len(MasterRead) = 2
    /\ master_fieldnames = << "Name", "Sector", "Category" >>
    /\ MasterRead[1]["Name"] = Acme
    /\ MasterRead[2]["Name"] = <<" ","A","C","M","E"," ","C","O","R","P"," ">>
    /\ MasterRead[1]["Sector"] = EmptyStr
    /\ MasterRead[2]["Sector"] = <<"X">>
    /\ DOMAIN organisation_data_map = {Acme}
    /\ organisation_data_map[Acme].Sector = EmptyStr


\* the name the specification gives a master row: the Name cell when there is
\* one and it is non-empty after trimming, else the Organisation cell
SpecifiedName(row) ==
    IF "Name" \in DOMAIN row /\ row["Name"] # None /\ Strip(row["Name"]) # EmptyStr
    THEN row["Name"]
    ELSE Get(row, "Organisation", EmptyStr)

\* the name the program gives a master row: the Name cell whenever the table
\* has a Name column, else the Organisation cell
ColumnName(row) ==
    IF "Name" \in DOMAIN row THEN row["Name"] ELSE Get(row, "Organisation", EmptyStr)

\* C8 as stated: every master row whose Name cell, or else whose Organisation
\* cell, is non-empty after trimming is recorded under that name lowercased.
C8_AsStated ==
    ReadingMaster =>
       \A i \in 1..Len(MasterRead) :
          LET name == SpecifiedName(MasterRead[i])
          IN  (name # None /\ Strip(name) # EmptyStr)
                 => Lower(Strip(name)) \in seen_orgs_lower

\* C8, amended: the name of a master row is its Name cell whenever the master
\* table has a Name column, and its Organisation cell only when the table has
\* no Name column; the names recorded are exactly these names that are
\* non-empty after trimming, so a row with an empty Name cell is skipped
\* whatever its Organisation cell holds.
C8_NameColumnFirst ==
    ReadingMaster =>
       /\ seen_orgs_lower =
             { Lower(Strip(ColumnName(MasterRead[i]))) :
                  i \in { j \in 1..Len(MasterRead) :
                             Strip(ColumnName(MasterRead[j])) # EmptyStr } }
       /\ {Lower(k) : k \in DOMAIN organisation_data_map} = seen_orgs_lower

\* C8 happens: a master row with an empty Name cell and Organisation
\* "Acme Corp" was read and nothing was recorded.
C8_Witness ==
    /\ ReadingMaster
    /\ Len(MasterRead) = 1
    /\ master_fieldnames = << "Name", "Organisation", "Sector" >>
    /\ MasterRead[1]["Name"] = EmptyStr
    /\ MasterRead[1]["Organisation"] = Acme
    /\ seen_orgs_lower = {}
    /\ DOMAIN organisation_data_map = {}

----------------------------------------------------------------------------
(* Empty tables *)

\* the table read by the call that has returned holds no data row
NoDataRows ==
    /\ pc = "done"
    /\ run = 1
    /\ master_fieldnames = << >>
    /\ \A k \in 1..Len(infile) : infile[k] = BlankRow

\* the header of the output: the input's, then Sector and Category if absent
AugmentedHeader ==
    fieldnames
       \o (IF \E k \in 1..Len(fieldnames) : fieldnames[k] = "Sector"
           THEN << >> ELSE << "Sector" >>)
       \o (IF \E k \in 1..Len(fieldnames) : fieldnames[k] = "Category"
           THEN << >> ELSE << "Category" >>)

\* C7 as stated: a table with no header, or with a header and no data rows,
\* gives the empty output string, updated = 0 and total = 0.
C7_AsStated == NoDataRows => result = EmptyResult

\* C7, amended: a table with no header gives the empty output string; a table
\* with a header and no data rows gives the header line alone (Sector and
\* Category appended when absent); both give updated = 0 and total = 0.
C7_EmptyTable ==
    NoDataRows =>
       /\ result.updated = 0
       /\ result.total = 0
       /\ result.output.rows = << >>
       /\ result.output.fieldnames =
             (IF fieldnames = << >> THEN << >> ELSE AugmentedHeader)

\* C7 happens: a table with a header, a blank line and no data row was read
\* to its end, and the returned text is not empty.
C7_Witness ==
    /\ NoDataRows
    /\ fieldnames # << >>
    /\ Len(infile) = 1
    /\ result.output # EmptyOutput

----------------------------------------------------------------------------
(* The rule tables as the specification lists them *)

SpecifiedSectorRules == <<
    << <<"S","o","f","t","w","a","r","e",","," ","M","e","d","i","a"," ","&"," ","T","e","c","h","n","o","l","o","g","y">>, <<"S","o","f","t","w","a","r","e"," ","&"," ","T","e","c","h","n","o","l","o","g","y">>, 1 >>,
    << <<"M","a","n","u","f","a","c","t","u","r","i","n","g"," ","&"," ","I","n","d","u","s","t","r","i","a","l">>, <<"M","a","n","u","f","a","c","t","u","r","i","n","g"," ","&"," ","I","n","d","u","s","t","r","i","a","l">>, 2 >>,
    << <<"c","o","n","s","t","r","u","c","t","i","o","n">>, <<"M","a","n","u","f","a","c","t","u","r","i","n","g"," ","&"," ","I","n","d","u","s","t","r","i","a","l">>, 2 >>,
    << <<"M","a","n","u","f","a","c","t","u","r","i","n","g"," ","&"," ","D","i","s","t","r","i","b","u","t","i","o","n">>, <<"M","a","n","u","f","a","c","t","u","r","i","n","g"," ","&"," ","I","n","d","u","s","t","r","i","a","l">>, 2 >>,
    << <<"H","e","a","l","t","h","c","a","r","e"," ","&"," ","E","d","u","c","a","t","i","o","n">>, <<"H","e","a","l","t","h","c","a","r","e"," ","&"," ","E","d","u","c","a","t","i","o","n">>, 3 >>,
    << <<"H","e","a","l","t","h"," ","&"," ","E","d","u","c","a","t","i","o","n">>, <<"H","e","a","l","t","h","c","a","r","e"," ","&"," ","E","d","u","c","a","t","i","o","n">>, 3 >>,
    << <<"S","o","f","t","w","a","r","e"," ","&"," ","T","e","c","h","n","o","l","o","g","y">>, <<"S","o","f","t","w","a","r","e"," ","&"," ","T","e","c","h","n","o","l","o","g","y">>, 4 >>,
    << <<"F","o","o","d"," ","&"," ","L","e","i","s","u","r","e">>, <<"F","o","o","d"," ","&"," ","L","e","i","s","u","r","e">>, 5 >>,
    << <<"S","u","s","t","a","i","n","a","b","i","l","i","t","y">>, <<"S","u","s","t","a","i","n","a","b","i","l","i","t","y">>, 6 >>,
    << <<"B","u","s","i","n","e","s","s"," ","S","e","r","v","i","c","e","s">>, <<"B","u","s","i","n","e","s","s"," ","S","e","r","v","i","c","e","s">>, 7 >> >>

\* the Category rules, with the canonical value of "Orion Network" left out
SpecifiedCategoryRules(orion) == <<
    << <<"C","o","r","p","o","r","a","t","e">>, <<"C","o","r","p","o","r","a","t","e">>, 1 >>,
    << <<"P","r","i","v","a","t","e"," ","E","q","u","i","t","y">>, <<"P","r","i","v","a","t","e"," ","E","q","u","i","t","y">>, 2 >>,
    << <<"L","e","g","a","l"," ","S","e","r","v","i","c","e","s">>, <<"L","e","g","a","l"," ","S","e","r","v","i","c","e","s">>, 3 >>,
    << <<"L","a","w"," ","F","i","r","m">>, <<"L","e","g","a","l"," ","S","e","r","v","i","c","e","s">>, 3 >>,
    << <<"C","o","n","s","u","l","t","a","n","c","y">>, <<"C","o","n","s","u","l","t","a","n","c","y">>, 4 >>,
    << <<"D","e","b","t">>, <<"D","e","b","t">>, 5 >>,
    << <<"E","q","u","i","t","y">>, <<"E","q","u","i","t","y">>, 6 >>,
    << <<"A","c","c","o","u","n","t","a","n","t","s">>, <<"A","c","c","o","u","n","t","a","n","t","s">>, 7 >>,
    << <<"F","i","n","a","n","c","i","a","l"," ","S","e","r","v","i","c","e","s">>, <<"F","i","n","a","n","c","i","a","l"," ","S","e","r","v","i","c","e","s">>, 8 >>,
    << <<"W","e","a","l","t","h"," ","M","a","n","a","g","e","r">>, <<"W","e","a","l","t","h"," ","M","a","n","a","g","e","r">>, 9 >>,
    << <<"O","r","i","o","n"," ","N","e","t","w","o","r","k">>, orion, 9 >>,
    << <<"C","o","m","p","e","t","i","t","o","r">>, <<"C","o","m","p","e","t","i","t","o","r">>, 10 >>,
    << <<"V","e","n","t","u","r","e"," ","a","n","d"," ","C","a","p","i","t","a","l"," ","G","r","o","w","t","h">>, <<"V","e","n","t","u","r","e"," ","a","n","d"," ","C","a","p","i","t","a","l"," ","G","r","o","w","t","h">>, 11 >>,
    << <<"O","t","h","e","r">>, <<"O","t","h","e","r">>, 99 >> >>

\* row i has an empty Category and Tags with "Orion Network" (in any letter
\* case) and no other Category token of priority 9 or lower
OrionOnly(i) ==
    /\ InCell(i, "Category") = EmptyStr
    /\ Truthy(InCell(i, "Tags"))
    /\ Contains(Lower(InCell(i, "Tags")), <<"o","r","i","o","n"," ","n","e","t","w","o","r","k">>)
    /\ \A k \in Matching("Category", InCell(i, "Tags")) :
          CATEGORY_MAPPING[k][3] <= 9 => CATEGORY_MAPPING[k][1] = <<"O","r","i","o","n"," ","N","e","t","w","o","r","k">>

\* C9 as stated: the rules are scanned in the order the specification lists
\* and "Orion Network" has the canonical value "Wealth Manager", so a row
\* with an empty Category and only that token gets "Wealth Manager".
C9_AsStated ==
    \A i \in Written :
        OrionOnly(i) =>
           /\ OutCell(i, "Category") = <<"W","e","a","l","t","h"," ","M","a","n","a","g","e","r">>
           /\ sorted_sector_mapping = SpecifiedSectorRules
           /\ sorted_category_mapping = SpecifiedCategoryRules(<<"W","e","a","l","t","h"," ","M","a","n","a","g","e","r">>)

\* C9, amended: the rules are scanned in the order the specification lists,
\* with the tokens, canonical values and priorities it lists, except that
\* "Orion Network" has the canonical value "Orion Network" (priority 9), so a
\* row with an empty Category and only that token gets "Orion Network".
C9_RuleTables ==
    /\ sorted_sector_mapping = SpecifiedSectorRules
    /\ sorted_category_mapping = SpecifiedCategoryRules(<<"O","r","i","o","n"," ","N","e","t","w","o","r","k">>)
    /\ \A i \in Written : OrionOnly(i) => OutCell(i, "Category") = <<"O","r","i","o","n"," ","N","e","t","w","o","r","k">>

\* C9 happens: a row with an empty Category and Tags "ORION NETWORK; ..." was
\* written with Category "Orion Network".
C9_Witness ==
    /\ command = "clean" /\ run = 1 /\ pc = "done" /\ ~Failed
    /\ \E i \in Written :
          /\ OrionOnly(i)
          /\ OutCell(i, "Category") = <<"O","r","i","o","n"," ","N","e","t","w","o","r","k">>

\* C10: clean_from_tags fills Sector and Category only when they are empty: a
\* cell that is non-empty in the input has the same value in the output.
C10_OnlyWhenEmpty ==
    \A i \in Written : \A F \in Fields :
       (InCell(i, F) # None /\ InCell(i, F) # EmptyStr)
          => OutCell(i, F) = InCell(i, F)

----------------------------------------------------------------------------
(* All or nothing *)

\* the number of data rows the reader of the input table has yielded
DataRowsRead == Len(SelectSeq(SubSeq(infile, 1, pos), IsDataRow))

\* a row with more cells than the header was read
LongRowRead == \E k \in 1..pos : Len(infile[k]) > Len(fieldnames)

\* every row read is blank or has exactly one cell per header column
WellFormed ==
    \A k \in 1..pos : infile[k] = BlankRow \/ Len(infile[k]) = Len(fieldnames)

\* the returned table and counts cover every data row of the input
CompleteResult ==
    /\ result.output.fieldnames # << >>
    /\ Len(result.output.rows) = DataRowsRead
    /\ result.total = DataRowsRead
    /\ result.updated \in 0..DataRowsRead

\* C11: a call that has returned returned either the empty output with
\* updated = 0 and total = 0, or a table with exactly total rows, one per data
\* row of the input; never a table or counts for only the rows before a
\* failure.  A row with more cells than the header, or a failure while reading
\* the master table, gives the empty result; an input whose rows all have one
\* cell per header column gives the complete one.
C11_AllOrNothing ==
    pc = "done" =>
       /\ result = EmptyResult \/ CompleteResult
       /\ LongRowRead => result = EmptyResult
       /\ master # << >> => result = EmptyResult
       /\ (fieldnames # << >> /\ WellFormed) => CompleteResult

\* C11 happens: the first row was written and counted as updated, the second
\* row has more cells than the header, and the call returned the empty result.
C11_Witness ==
    /\ pc = "done" /\ run = 1
    /\ pos = 2
    /\ Len(infile[1]) = Len(fieldnames)
    /\ Len(output_io) = 1
    /\ updated_rows_count >= 1
    /\ total_rows_count = 2
    /\ Len(infile[2]) > Len(fieldnames)
    /\ result = EmptyResult

====
